---- MODULE Spec2Model ----
(***************************************************************************)
(* Gentle Pomodoro: the timer state machine (TimerEngine) and the session  *)
(* log recorder (LogManager).                                              *)
(*                                                                         *)
(* Handlers run to completion (JavaScript event loop).  An async function  *)
(* runs synchronously up to its first await; what follows an await of real *)
(* file I/O runs in a later event, what follows an await of an already     *)
(* settled promise runs as a microtask right after the current handler.    *)
(* Objects are shared by reference: a SessionLog lives in heap, and        *)
(* currentSession and the pending writeLog calls hold its index.           *)
(***************************************************************************)
EXTENDS Integers, Sequences, FiniteSets, TLC

(* ------------------------------ bounds --------------------------------- *)
\* clock instants, SessionLog objects per run, pauses per session
MaxInstants == 4
MaxSessions == 2
MaxPauses == 2
\* writeLog calls in flight: one where the lines are studied, two where the
\* races between writes are
LogPending == 1
RacePending == 2
RaceInstants == 3
MaxChecks == 1
MaxSaves == 1
MaxTotalMinutes == 7
\* pauses per session where writes are delayed or fail
DelayPauses == 1
\* sessions and instants where the order of the lines is studied
OrderSessions == 3
OrderInstants == 2
\* snapshots delivered to one listener, instants where listeners are studied
MaxDeliveries == 3
ListenInstants == 2

(* ------------------------- program constants --------------------------- *)
MsPerMinute == 60 * 1000
MinTotal == 60 * 1000
MinusGuardMs == 5 * 60 * 1000
StepMinutes == 5
MsPerSecond == 1000
TickIntervalMs == 50
MsPerDay == 24 * 60 * 60 * 1000
NoTask == "No Task"
\* JavaScript undefined. An optional string (path?: string) is Undefined or
\* Some(s): no string, "undefined" included, is taken for it.
Undefined == <<>>
None == <<>>
Some(x) == <<x>>
Val(o) == o[1]

(* ------------------------------ the clock ------------------------------ *)
\* The instants at which the wall clock is read: one minute before local
\* midnight of day 0, then offsets that give sub-second remainders, a
\* countdown reaching exactly zero, overtime, and a change of date.
Epoch == MsPerDay - MsPerMinute
Offsets == <<0, 60000, 125700, 186200, 250900>>
Offset(i) == IF i <= Len(Offsets) THEN Offsets[i]
             ELSE Offsets[Len(Offsets)] + (i - Len(Offsets)) * 61300
ClockInstants(n) == {Epoch + Offset(i) : i \in 1..n}

(* ------------------------------ inputs --------------------------------- *)
Modes == {"focus", "break"}
MinutesInputs == {1, 2}
\* what parseInt gives for a duration input of the settings panel
SettingsInputs == {-1, 0, 1, 2}
TaskInputs == {<<NoTask, Undefined>>, <<"Write docs", Some("Projects/A.md")>>}
\* what the vault shows at the path of the daily log file when writeLog
\* looks: "file" is the file as far as it was written (none if nothing
\* was), "other" something that exists and is no TFile (a folder of that
\* name, or a file the vault has not indexed)
PathInputs == {"file", "other"}
\* the documents of the vault that 'modify' events are about, and those
\* among them that the user deletes, renames away or puts back
DocumentInputs == {"Projects/A.md", "Daily/B.md"}
MovedDocuments == {"Projects/A.md"}
FolderInputs == {"", "Pomodoro_logs"}
\* the listeners of the open views
ListenerIds == {1, 2}
\* addMinutes(delta) as a method: the buttons' 5 and -5 and other integers
DeltaInputs == {-30, -6, -5, -1, 0, 1, 5}
\* setTask(name, path?) as a method: every kind of name, with and without
\* a path
SetTaskArgs ==
    {<<NoTask, Undefined>>, <<NoTask, Some("Projects/A.md")>>,
     <<"Write docs", Some("Projects/A.md")>>, <<"Write docs", Undefined>>,
     <<"", Some("Projects/A.md")>>, <<"", Undefined>>,
     <<"Write docs", Some("")>>, <<"undefined", Some("undefined")>>}

(* ------------------------------ helpers -------------------------------- *)
\* JavaScript truthiness of a string, and of a string | undefined
Truthy(s) == s # ""
TruthyOpt(p) == p # Undefined /\ Val(p) # ""
OrNoTask(name) == IF Truthy(name) THEN name ELSE NoTask
MinutesOf(settings, mode) ==
    IF mode = "focus" THEN settings.focusMinutes ELSE settings.breakMinutes

RECURSIVE SumPauseMs(_)
SumPauseMs(ps) ==
    IF ps = <<>> THEN 0
    ELSE (ps[1].end - ps[1].start) + SumPauseMs(Tail(ps))

\* moment.format("YYYY-MM-DD HH:mm:ss"): calendar date and second of day,
\* the milliseconds are dropped.
FormatDateTime(t) == [date |-> t \div MsPerDay, sec |-> (t % MsPerDay) \div MsPerSecond]
\* moment.format("YYYY-MM-DD")
FormatDate(t) == t \div MsPerDay

(* ------------------------------ state ---------------------------------- *)
VARIABLES
    st,                \* TimerEngine.state
    targetTime,        \* TimerEngine.targetTime (None = null)
    intervalId,        \* TimerEngine.intervalId (None = null)
    currentTaskName,   \* TimerEngine.currentTaskName
    currentTaskPath,   \* TimerEngine.currentTaskPath
    settings,          \* GentlePomoPlugin.settings
    currentSession,    \* LogManager.currentSession: index into heap, 0 = null
    currentPauseStart, \* LogManager.currentPauseStart (None = null)
    heap,              \* the SessionLog objects created so far
    pending,           \* endSession calls suspended in writeLog
    checks,            \* checkTaskCompletionAndUnlink calls awaiting vault.read
    saves,             \* settings handlers awaiting saveSettings
    now,               \* wall clock, ms
    folderExists,      \* the log folder exists in the vault
    files,             \* daily log files: date -> chunks written
    listeners,         \* TimerEngine.listeners
    received,          \* per listener: calls received, argument of the last
    documents          \* the paths at which the vault holds a file (TFile)

vars == <<st, targetTime, intervalId, currentTaskName, currentTaskPath,
          settings, currentSession, currentPauseStart, heap, pending,
          checks, saves, now, folderExists, files, listeners, received,
          documents>>

\* The whole program state as one value; micro counts the endSession
\* continuations queued as microtasks by the running handler.
World ==
    [st |-> st, targetTime |-> targetTime, intervalId |-> intervalId,
     currentTaskName |-> currentTaskName, currentTaskPath |-> currentTaskPath,
     settings |-> settings, currentSession |-> currentSession,
     currentPauseStart |-> currentPauseStart, heap |-> heap,
     pending |-> pending, checks |-> checks, saves |-> saves, now |-> now,
     folderExists |-> folderExists, files |-> files,
     listeners |-> listeners, received |-> received,
     documents |-> documents, micro |-> 0]

(* ---------------------------- LogManager ------------------------------- *)
resumeSession(w) ==
    IF w.currentSession = 0 \/ w.currentPauseStart = None THEN w
    ELSE [w EXCEPT
            !.heap[w.currentSession].pauses =
                Append(@, [start |-> Val(w.currentPauseStart), end |-> w.now]),
            !.currentPauseStart = None]

\* (variant) no check for a session already active
startSessionAlways(w, mode, taskName, durationMinutes, taskPath) ==
    [w EXCEPT
        !.heap = Append(@, [mode |-> mode,
                            taskName |-> OrNoTask(taskName),
                            taskPath |-> taskPath,
                            scheduledDurationMinutes |-> durationMinutes,
                            startTime |-> w.now,
                            endTime |-> None,
                            pauses |-> <<>>,
                            status |-> "cancelled"]),
        !.currentSession = Len(w.heap) + 1]

startSession(w, mode, taskName, durationMinutes, taskPath) ==
    IF w.currentSession # 0 THEN resumeSession(w)
    ELSE [w EXCEPT
            !.heap = Append(@, [mode |-> mode,
                                taskName |-> OrNoTask(taskName),
                                taskPath |-> taskPath,
                                scheduledDurationMinutes |-> durationMinutes,
                                startTime |-> w.now,
                                endTime |-> None,
                                pauses |-> <<>>,
                                status |-> "cancelled"]),
            !.currentSession = Len(w.heap) + 1]

pauseSession(w) ==
    IF w.currentSession = 0 THEN w
    ELSE [w EXCEPT !.currentPauseStart = Some(w.now)]

updateTask(w, newTaskName, newTaskPath) ==
    IF w.currentSession # 0
    THEN [w EXCEPT !.heap[w.currentSession].taskName = OrNoTask(newTaskName),
                   !.heap[w.currentSession].taskPath = newTaskPath]
    ELSE w

\* (variant) no check for an unset folder path
writeLogCallAlways(w, session) ==
    [w EXCEPT !.pending = Append(@, [pc |-> "folderExists",
                                     session |-> session,
                                     line |-> None,
                                     date |-> None,
                                     src |-> None])]

\* writeLog up to its first await: returns at once when no folder is set
\* (the awaiting endSession then continues as a microtask), otherwise
\* suspends in adapter.exists(normalizedFolder).
writeLogCall(w, session) ==
    IF ~Truthy(w.settings.logFolderPath)
    THEN [w EXCEPT !.micro = @ + 1]
    ELSE [w EXCEPT !.pending = Append(@, [pc |-> "folderExists",
                                          session |-> session,
                                          line |-> None,
                                          date |-> None,
                                          src |-> None])]

\* endSession up to "await this.writeLog(...)"
endSession(w, status) ==
    IF w.currentSession = 0 THEN w
    ELSE LET w1 == IF w.currentPauseStart # None THEN resumeSession(w) ELSE w
             w2 == [w1 EXCEPT !.heap[w.currentSession].endTime = Some(w.now),
                              !.heap[w.currentSession].status = status]
         IN  writeLogCall(w2, w.currentSession)

\* endSession after the await: "Reset state"
endSessionResume(w) ==
    [w EXCEPT !.currentSession = 0, !.currentPauseStart = None]

\* The microtasks queued by a handler run when it returns.
RunMicrotasks(w) ==
    IF w.micro > 0 THEN [endSessionResume(w) EXCEPT !.micro = 0] ELSE w

\* (variant) the paused time is not subtracted
totalSecondsGross(session) ==
    (Val(session.endTime) - session.startTime) \div MsPerSecond

\* writeLog step 3: totals
totalSeconds(session) ==
    (Val(session.endTime) - session.startTime - SumPauseMs(session.pauses))
        \div MsPerSecond

pauseStrings(session) ==
    [i \in 1..Len(session.pauses) |->
        <<FormatDateTime(session.pauses[i].start), " - ",
          FormatDateTime(session.pauses[i].end)>>]

\* writeLog step 4: the Task field, as the pieces the template joins
taskStr(session) ==
    IF TruthyOpt(session.taskPath) /\ session.taskName # NoTask
    THEN <<"[[", Val(session.taskPath), "|", session.taskName, "]]">>
    ELSE <<session.taskName>>

\* writeLog step 4: the line, as its fields in order
formatLine(session) ==
    IF session.mode = "focus"
    THEN [head |-> "Focus",
          Task |-> taskStr(session),
          Start |-> FormatDateTime(session.startTime),
          End |-> FormatDateTime(Val(session.endTime)),
          Scheduled |-> session.scheduledDurationMinutes * 60,
          Pauses |-> pauseStrings(session),
          Total |-> totalSeconds(session),
          Status |-> session.status]
    ELSE [head |-> "Rest",
          Start |-> FormatDateTime(session.startTime),
          End |-> FormatDateTime(Val(session.endTime)),
          Scheduled |-> session.scheduledDurationMinutes * 60,
          Total |-> totalSeconds(session)]

(* ------------------- writeLog after its first await -------------------- *)
Dates == {FormatDate(Epoch), FormatDate(Epoch) + 1}

RemoveAt(q, i) == [j \in 1..(Len(q) - 1) |-> IF j < i THEN q[j] ELSE q[j + 1]]

\* (variant) the daily file is named for the date of the end
writeLogDeriveEndDate(w, i) ==
    LET session == w.heap[w.pending[i].session]
    IN  [w EXCEPT !.pending[i].pc = "fileExists",
                  !.pending[i].date = Some(FormatDate(Val(session.endTime))),
                  !.pending[i].line = Some(formatLine(session)),
                  !.pending[i].src = Some(session)]

\* writeLog steps 2-4, run once the folder is known to exist: the line is
\* derived from the SessionLog object as it is at that moment (src keeps
\* that value, for the history); the call then suspends in
\* adapter.exists(filePath).
writeLogDerive(w, i) ==
    LET session == w.heap[w.pending[i].session]
    IN  [w EXCEPT !.pending[i].pc = "fileExists",
                  !.pending[i].date = Some(FormatDate(session.startTime)),
                  !.pending[i].line = Some(formatLine(session)),
                  !.pending[i].src = Some(session)]

\* What vault.create / vault.append add to the file.  History only: sid is
\* the index of the SessionLog the line was derived from, src its fields at
\* the moment of derivation.
Chunk(w, i, sep) ==
    [sep |-> sep, line |-> Val(w.pending[i].line),
     sid |-> w.pending[i].session, src |-> Val(w.pending[i].src)]

\* The awaited writeLog returned: endSession continues and clears the record.
writeLogReturn(w, i) ==
    endSessionResume([w EXCEPT !.pending = RemoveAt(@, i)])

\* The awaited operation threw: writeLog and endSession reject, nothing
\* catches it, and the code after the await never runs.
writeLogThrow(w, i) ==
    [w EXCEPT !.pending = RemoveAt(@, i)]

\* (variant) the file is written whole instead of created: a file that
\* came into being since the existence check is replaced
writeLogStepOverwrite(w, i, entry) ==
    LET t == w.pending[i]
    IN  CASE t.pc = "folderExists" ->
                IF w.folderExists THEN writeLogDerive(w, i)
                ELSE [w EXCEPT !.pending[i].pc = "createFolder"]
          [] t.pc = "createFolder" ->
                IF w.folderExists THEN writeLogThrow(w, i)
                ELSE writeLogDerive([w EXCEPT !.folderExists = TRUE], i)
          [] t.pc = "fileExists" ->
                IF entry = "other" THEN writeLogReturn(w, i)
                ELSE IF w.files[Val(t.date)] # <<>>
                THEN [w EXCEPT !.pending[i].pc = "append"]
                ELSE [w EXCEPT !.pending[i].pc = "create"]
          [] t.pc = "append" ->
                writeLogReturn(
                    [w EXCEPT !.files[Val(t.date)] = Append(@, Chunk(w, i, "\n"))], i)
          [] t.pc = "create" ->
                writeLogReturn(
                    [w EXCEPT !.files[Val(t.date)] = <<Chunk(w, i, "")>>], i)

\* The file operation awaited by pending call i completes; entry is what
\* the vault shows at the daily file's path.
writeLogStep(w, i, entry) ==
    LET t == w.pending[i]
    IN  CASE t.pc = "folderExists" ->
                IF w.folderExists THEN writeLogDerive(w, i)
                ELSE [w EXCEPT !.pending[i].pc = "createFolder"]
          [] t.pc = "createFolder" ->
                \* vault.createFolder throws when the folder already exists
                IF w.folderExists THEN writeLogThrow(w, i)
                ELSE writeLogDerive([w EXCEPT !.folderExists = TRUE], i)
          [] t.pc = "fileExists" ->
                \* it exists and is no TFile: nothing is written
                IF entry = "other" THEN writeLogReturn(w, i)
                ELSE IF w.files[Val(t.date)] # <<>>
                THEN [w EXCEPT !.pending[i].pc = "append"]
                ELSE [w EXCEPT !.pending[i].pc = "create"]
          [] t.pc = "append" ->
                writeLogReturn(
                    [w EXCEPT !.files[Val(t.date)] = Append(@, Chunk(w, i, "\n"))], i)
          [] t.pc = "create" ->
                \* vault.create throws when the file already exists
                IF w.files[Val(t.date)] # <<>> THEN writeLogThrow(w, i)
                ELSE writeLogReturn(
                    [w EXCEPT !.files[Val(t.date)] = <<Chunk(w, i, "")>>], i)

(* ---------------------------- TimerEngine ------------------------------ *)
\* (variant) the state object itself is handed out
getStateLive(w) == [obj |-> "state", val |-> w.st]

\* A reference to a TimerState: obj says which object it points to, a copy
\* of its own or the engine's state object, val the fields it shows.
getState(w) == [obj |-> "copy", val |-> w.st]

\* listener l is called with snapshot s
call(w, l, s) ==
    [w EXCEPT !.received[l] = [n |-> @.n + 1, last |-> Some(s)]]

onChange(w, l) ==
    call([w EXCEPT !.listeners = @ \cup {l}], l, getState(w))

\* (variant) the listener stays registered
offChangeKeep(w, l) == w

offChange(w, l) == [w EXCEPT !.listeners = @ \ {l}]

\* (variant) nobody is told
emitNone(w) == w

emit(w) ==
    LET snapshot == getState(w)
    IN  [w EXCEPT !.received =
            [l \in ListenerIds |->
                IF l \in w.listeners
                THEN [n |-> w.received[l].n + 1, last |-> Some(snapshot)]
                ELSE w.received[l]]]

\* "this.state = {...}": the engine gets a new state object; a reference
\* to the old one keeps showing the old one
assignState(w, s) ==
    [w EXCEPT !.st = s,
              !.received =
                 [l \in ListenerIds |->
                     IF w.received[l].last # None /\ Val(w.received[l].last).obj = "state"
                     THEN [w.received[l] EXCEPT !.last = Some([obj |-> "copy", val |-> w.st])]
                     ELSE w.received[l]]]

\* "this.state.x = ...": an assignment to a field of the engine's state
\* object shows through every reference to that object
shareState(w) ==
    [w EXCEPT !.received =
        [l \in ListenerIds |->
            IF w.received[l].last # None /\ Val(w.received[l].last).obj = "state"
            THEN [w.received[l] EXCEPT !.last = Some([obj |-> "state", val |-> w.st])]
            ELSE w.received[l]]]

clearLoop(w) == [w EXCEPT !.intervalId = None]

startLoop(w) ==
    LET w1 == clearLoop(w)
        w2 == IF w1.st.isRunning /\ w1.targetTime = None
              THEN [w1 EXCEPT !.targetTime = Some(w1.now + w1.st.remainingMs)]
              ELSE w1
    IN  [w2 EXCEPT !.intervalId = Some(1)]

\* (variant) a counter: each tick takes the interval off remainingMs
tickCounter(w) ==
    IF ~w.st.isRunning \/ w.targetTime = None THEN w
    ELSE emit([w EXCEPT !.st.remainingMs = @ - TickIntervalMs])

\* (variant) the countdown stops and ends the session when the time is up
tickAutoStop(w) ==
    IF ~w.st.isRunning \/ w.targetTime = None THEN w
    ELSE IF Val(w.targetTime) - w.now > 0
    THEN emit([w EXCEPT !.st.remainingMs = Val(w.targetTime) - w.now])
    ELSE emit(clearLoop(endSession([w EXCEPT !.st.remainingMs = 0,
                                              !.st.isRunning = FALSE,
                                              !.targetTime = None], "finished")))

\* the setInterval callback
tick(w) ==
    IF ~w.st.isRunning \/ w.targetTime = None THEN w
    ELSE emit([w EXCEPT !.st.remainingMs = Val(w.targetTime) - w.now])

setTask(w, name, path) ==
    emit(updateTask([w EXCEPT !.currentTaskName = name,
                              !.currentTaskPath = path,
                              !.st.taskName = name], name, path))

\* checkTaskCompletionAndUnlink up to "await vault.read(file)"
checkTaskCompletionAndUnlink(w) ==
    IF ~TruthyOpt(w.currentTaskPath) \/ w.currentTaskName = NoTask THEN w
    \* getAbstractFileByPath gives no TFile: nothing is read
    ELSE IF Val(w.currentTaskPath) \notin w.documents THEN w
    ELSE [w EXCEPT !.checks = @ + 1]

\* ... and after it: completed says whether the document now shows the task
\* as done and not as open.
checkTaskCompletionResume(w, completed) ==
    LET w1 == [w EXCEPT !.checks = @ - 1]
    IN  IF completed THEN setTask(w1, NoTask, Undefined) ELSE w1

onFileModify(w, path) ==
    IF w.currentTaskName = NoTask \/ ~TruthyOpt(w.currentTaskPath) THEN w
    ELSE IF path # Val(w.currentTaskPath) THEN w
    ELSE IF w.st.isRunning THEN w
    ELSE checkTaskCompletionAndUnlink(w)

switchMode(w, mode, autoStart) ==
    LET minutes == MinutesOf(w.settings, mode)
        total == minutes * 60 * 1000
        w1 == emit(assignState(w, [mode |-> mode, isRunning |-> autoStart,
                                   remainingMs |-> total, totalMs |-> total,
                                   taskName |-> w.currentTaskName]))
    IN  IF autoStart
        THEN startLoop(
               [startSession(w1, mode, w1.currentTaskName, minutes, w1.currentTaskPath)
                  EXCEPT !.targetTime = Some(w1.now + total)])
        ELSE clearLoop([w1 EXCEPT !.targetTime = None])

\* (variant) the next mode starts by the auto-start setting of the mode
\* that ended
handleFinishedOldAuto(w) ==
    LET w1 == checkTaskCompletionAndUnlink(endSession(w, "finished"))
    IN  IF w1.st.mode = "focus"
        THEN switchMode(w1, "break", w1.settings.autoStartFocus)
        ELSE switchMode(w1, "focus", w1.settings.autoStartBreak)

\* (variant) a session stopped before the countdown completed is logged
\* as cancelled
handleFinishedEarly(w) ==
    LET status == IF w.st.remainingMs <= 0 THEN "finished" ELSE "cancelled"
        w1 == checkTaskCompletionAndUnlink(endSession(w, status))
    IN  IF w1.st.mode = "focus"
        THEN switchMode(w1, "break", w1.settings.autoStartBreak)
        ELSE switchMode(w1, "focus", w1.settings.autoStartFocus)

\* (variant) the mode switch waits for the log write
handleFinishedAwait(w) ==
    LET w1 == checkTaskCompletionAndUnlink(endSession(w, "finished"))
    IN  IF Len(w1.pending) > Len(w.pending) THEN w1
        ELSE IF w1.st.mode = "focus"
        THEN switchMode(w1, "break", w1.settings.autoStartBreak)
        ELSE switchMode(w1, "focus", w1.settings.autoStartFocus)

handleFinished(w) ==
    LET w1 == checkTaskCompletionAndUnlink(endSession(w, "finished"))
    IN  IF w1.st.mode = "focus"
        THEN switchMode(w1, "break", w1.settings.autoStartBreak)
        ELSE switchMode(w1, "focus", w1.settings.autoStartFocus)

\* (variant) the session is scheduled for the duration the timer shows
startScheduledTotal(w) ==
    IF w.st.isRunning THEN w
    ELSE LET w1 == [w EXCEPT !.st.isRunning = TRUE]
             w2 == startSession(w1, w1.st.mode, w1.currentTaskName,
                                w1.st.totalMs \div (60 * 1000), w1.currentTaskPath)
         IN  startLoop(emit([w2 EXCEPT !.targetTime = Some(w2.now + w2.st.remainingMs)]))

\* (variant) no check for a timer already running
startUnguarded(w) ==
    LET w1 == [w EXCEPT !.st.isRunning = TRUE]
        w2 == startSession(w1, w1.st.mode, w1.currentTaskName,
                           MinutesOf(w1.settings, w1.st.mode), w1.currentTaskPath)
    IN  startLoop(emit([w2 EXCEPT !.targetTime = Some(w2.now + w2.st.remainingMs)]))

start(w) ==
    IF w.st.isRunning THEN w
    ELSE LET w1 == [w EXCEPT !.st.isRunning = TRUE]
             w2 == startSession(w1, w1.st.mode, w1.currentTaskName,
                                MinutesOf(w1.settings, w1.st.mode), w1.currentTaskPath)
         IN  startLoop(emit([w2 EXCEPT !.targetTime = Some(w2.now + w2.st.remainingMs)]))

\* (variant) a pause concludes the session: it is ended as cancelled and
\* its line is written
pauseEndsSession(w) ==
    IF ~w.st.isRunning THEN w
    ELSE emit(clearLoop([endSession(w, "cancelled") EXCEPT !.st.isRunning = FALSE,
                                                          !.targetTime = None]))

\* (variant) only the refresh loop is stopped: the timer stays running
\* toward its wall-clock target
pauseLoopOnly(w) ==
    IF ~w.st.isRunning THEN w
    ELSE emit(clearLoop(pauseSession(w)))

\* (variant) the wall-clock target is kept over the pause
pauseKeepsTarget(w) ==
    IF ~w.st.isRunning THEN w
    ELSE emit(clearLoop([pauseSession(w) EXCEPT !.st.isRunning = FALSE]))

pause(w) ==
    IF ~w.st.isRunning THEN w
    ELSE emit(clearLoop([pauseSession(w) EXCEPT !.st.isRunning = FALSE,
                                                !.targetTime = None]))

finish(w) == handleFinished(w)

\* (variant) the next mode auto-starts per configuration, as after finish
skipAutoStart(w) ==
    LET status == IF w.st.mode = "focus" THEN "cancelled" ELSE "finished"
        w1 == checkTaskCompletionAndUnlink(endSession(w, status))
    IN  IF w1.st.mode = "focus"
        THEN switchMode(w1, "break", w1.settings.autoStartBreak)
        ELSE switchMode(w1, "focus", w1.settings.autoStartFocus)

skip(w) ==
    LET status == IF w.st.mode = "focus" THEN "cancelled" ELSE "finished"
        w1 == checkTaskCompletionAndUnlink(endSession(w, status))
        nextMode == IF w1.st.mode = "focus" THEN "break" ELSE "focus"
    IN  switchMode(w1, nextMode, FALSE)

\* (variant) reset as cancel: the session is ended as cancelled and the
\* current mode is entered afresh
resetAsCancel(w) ==
    switchMode(checkTaskCompletionAndUnlink(endSession(w, "cancelled")),
               w.st.mode, FALSE)

reset(w) ==
    LET total == MinutesOf(w.settings, w.st.mode) * 60 * 1000
        w1 == [w EXCEPT !.st.remainingMs = total, !.st.totalMs = total]
    IN  IF w1.st.isRunning
        THEN emit([w1 EXCEPT !.targetTime = Some(w1.now + total)])
        ELSE emit(clearLoop([w1 EXCEPT !.targetTime = None]))

\* cancel(): the session is ended as cancelled and the current mode is
\* entered afresh, stopped (not called by the views)
cancel(w) ==
    switchMode(checkTaskCompletionAndUnlink(endSession(w, "cancelled")),
               w.st.mode, FALSE)

\* (variant) the target is shifted by the delta asked for, clamped or not
addMinutesShiftDelta(w, delta) ==
    LET deltaMs == delta * 60 * 1000
        sum == w.st.totalMs + deltaMs
        newTotal == IF sum < MinTotal THEN MinTotal ELSE sum
        oldRemaining == w.st.remainingMs
        moved == oldRemaining + deltaMs
        newRemaining == IF moved > newTotal THEN newTotal ELSE moved
        w1 == [w EXCEPT !.st.totalMs = newTotal, !.st.remainingMs = newRemaining]
    IN  IF w1.st.isRunning /\ w1.targetTime # None
        THEN emit([w1 EXCEPT !.targetTime = Some(Val(@) + deltaMs)])
        ELSE emit(w1)

\* (variant) remaining is not clamped to the new total
addMinutesNoClamp(w, delta) ==
    LET deltaMs == delta * 60 * 1000
        sum == w.st.totalMs + deltaMs
        newTotal == IF sum < MinTotal THEN MinTotal ELSE sum
        oldRemaining == w.st.remainingMs
        newRemaining == oldRemaining + deltaMs
        w1 == [w EXCEPT !.st.totalMs = newTotal, !.st.remainingMs = newRemaining]
    IN  IF w1.st.isRunning /\ w1.targetTime # None
        THEN emit([w1 EXCEPT !.targetTime = Some(Val(@) + (newRemaining - oldRemaining))])
        ELSE emit(w1)

addMinutes(w, delta) ==
    LET deltaMs == delta * 60 * 1000
        sum == w.st.totalMs + deltaMs
        newTotal == IF sum < MinTotal THEN MinTotal ELSE sum
        oldRemaining == w.st.remainingMs
        moved == oldRemaining + deltaMs
        newRemaining == IF moved > newTotal THEN newTotal ELSE moved
        w1 == [w EXCEPT !.st.totalMs = newTotal, !.st.remainingMs = newRemaining]
    IN  IF w1.st.isRunning /\ w1.targetTime # None
        THEN emit([w1 EXCEPT !.targetTime = Some(Val(@) + (newRemaining - oldRemaining))])
        ELSE emit(w1)

\* (variant) the remaining time follows the new duration in any state
updateDurationAlways(w, mode, minutes) ==
    IF w.st.mode = mode
    THEN LET newTotal == minutes * 60 * 1000
         IN  emit([w EXCEPT !.st.remainingMs = newTotal, !.st.totalMs = newTotal])
    ELSE w

updateDuration(w, mode, minutes) ==
    IF w.st.mode = mode
    THEN LET newTotal == minutes * 60 * 1000
         IN  IF ~w.st.isRunning /\ w.st.remainingMs = w.st.totalMs
             THEN emit([w EXCEPT !.st.remainingMs = newTotal, !.st.totalMs = newTotal])
             ELSE emit([w EXCEPT !.st.totalMs = newTotal])
    ELSE w

\* (variant) the input is taken as it is
settingsChangeAny(w, mode, val) ==
    [w EXCEPT !.settings = IF mode = "focus"
                           THEN [@ EXCEPT !.focusMinutes = val]
                           ELSE [@ EXCEPT !.breakMinutes = val],
              !.saves = Append(@, [mode |-> mode, val |-> val])]

\* GentlePomoView.renderSettingsPanel: a duration input up to
\* "await this.plugin.saveSettings()"
settingsChange(w, mode, val) ==
    IF val > 0
    THEN [w EXCEPT !.settings = IF mode = "focus"
                                THEN [@ EXCEPT !.focusMinutes = val]
                                ELSE [@ EXCEPT !.breakMinutes = val],
                   !.saves = Append(@, [mode |-> mode, val |-> val])]
    ELSE w

\* ... and after it
settingsResume(w, i) ==
    updateDuration([w EXCEPT !.saves = RemoveAt(@, i)],
                   w.saves[i].mode, w.saves[i].val)

\* GentlePomoSettingTab.display, "Pomodoro Logs Folder" onChange: the
\* setting is assigned, then saveSettings is awaited and nothing follows
logFolderOnChange(w, value) ==
    [w EXCEPT !.settings.logFolderPath = value]

\* the user deletes or renames a document of the vault / puts it back; the
\* plugin listens to 'modify' only
vaultDelete(w, path) == [w EXCEPT !.documents = @ \ {path}]
vaultCreate(w, path) == [w EXCEPT !.documents = @ \cup {path}]

(* ------------------------------ actions -------------------------------- *)
\* A SessionLog object that nothing refers to any more is garbage; its slot
\* keeps only the fact that it was allocated.
Dead == [mode |-> "dead", taskName |-> NoTask, taskPath |-> Undefined,
         scheduledDurationMinutes |-> 0, startTime |-> 0, endTime |-> None,
         pauses |-> <<>>, status |-> "cancelled"]

Referenced(w, id) ==
    \/ w.currentSession = id
    \/ \E i \in 1..Len(w.pending) : w.pending[i].session = id

Collect(w) ==
    [w EXCEPT !.heap = [id \in 1..Len(w.heap) |->
                          IF Referenced(w, id) THEN w.heap[id] ELSE Dead]]

\* A handler ran from world w: its microtasks run, then the state is w.
Commit(w0) ==
    LET w == shareState(Collect(RunMicrotasks(w0)))
    IN  /\ st' = w.st
        /\ targetTime' = w.targetTime
        /\ intervalId' = w.intervalId
        /\ currentTaskName' = w.currentTaskName
        /\ currentTaskPath' = w.currentTaskPath
        /\ settings' = w.settings
        /\ currentSession' = w.currentSession
        /\ currentPauseStart' = w.currentPauseStart
        /\ heap' = w.heap
        /\ pending' = w.pending
        /\ checks' = w.checks
        /\ saves' = w.saves
        /\ now' = w.now
        /\ folderExists' = w.folderExists
        /\ files' = w.files
        /\ listeners' = w.listeners
        /\ received' = w.received
        /\ documents' = w.documents

\* The bounds of a specification: a handler is taken only if its result
\* stays within them.
Bounds(nInstants, nPending) ==
    [instants |-> nInstants, sessions |-> MaxSessions, pending |-> nPending,
     pauses |-> MaxPauses, checks |-> MaxChecks, saves |-> MaxSaves,
     totalMinutes |-> MaxTotalMinutes, deliveries |-> MaxDeliveries]

WithinBounds(w, b) ==
    /\ Len(w.heap) <= b.sessions
    /\ Len(w.pending) <= b.pending
    /\ w.checks <= b.checks
    /\ Len(w.saves) <= b.saves
    /\ w.st.totalMs <= b.totalMinutes * MsPerMinute
    /\ \A i \in 1..Len(w.heap) : Len(w.heap[i].pauses) <= b.pauses
    /\ \A l \in ListenerIds : w.received[l].n <= b.deliveries

Init ==
    /\ \E a \in BOOLEAN, f \in FolderInputs :
          settings = [focusMinutes |-> 1, breakMinutes |-> 2,
                      autoStartBreak |-> a, autoStartFocus |-> a,
                      logFolderPath |-> f]
    /\ st = [mode |-> "focus", isRunning |-> FALSE,
             remainingMs |-> settings.focusMinutes * 60 * 1000,
             totalMs |-> settings.focusMinutes * 60 * 1000,
             taskName |-> NoTask]
    /\ targetTime = None
    /\ intervalId = None
    /\ currentTaskName = NoTask
    /\ currentTaskPath = Undefined
    /\ currentSession = 0
    /\ currentPauseStart = None
    /\ heap = <<>>
    /\ pending = <<>>
    /\ checks = 0
    /\ saves = <<>>
    /\ now = Epoch
    /\ folderExists = FALSE
    /\ files = [d \in Dates |-> <<>>]
    /\ listeners = {}
    /\ received = [l \in ListenerIds |-> [n |-> 0, last |-> None]]
    /\ documents = DocumentInputs

\* the same with the two auto-start settings stored independently, no log
\* folder
InitAuto ==
    /\ \E a \in BOOLEAN, c \in BOOLEAN :
          settings = [focusMinutes |-> 1, breakMinutes |-> 2,
                      autoStartBreak |-> a, autoStartFocus |-> c,
                      logFolderPath |-> ""]
    /\ st = [mode |-> "focus", isRunning |-> FALSE,
             remainingMs |-> settings.focusMinutes * 60 * 1000,
             totalMs |-> settings.focusMinutes * 60 * 1000,
             taskName |-> NoTask]
    /\ targetTime = None
    /\ intervalId = None
    /\ currentTaskName = NoTask
    /\ currentTaskPath = Undefined
    /\ currentSession = 0
    /\ currentPauseStart = None
    /\ heap = <<>>
    /\ pending = <<>>
    /\ checks = 0
    /\ saves = <<>>
    /\ now = Epoch
    /\ folderExists = FALSE
    /\ files = [d \in Dates |-> <<>>]
    /\ listeners = {}
    /\ received = [l \in ListenerIds |-> [n |-> 0, last |-> None]]
    /\ documents = DocumentInputs

\* the log folder is configured / is not
InitFolder == Init /\ Truthy(settings.logFolderPath)
InitNoFolder == Init /\ ~Truthy(settings.logFolderPath)

Start(b) ==
    /\ WithinBounds(start(World), b)
    /\ Commit(start(World))
\* a pause is opened only if the bound leaves room to close it
Pause(b) ==
    /\ currentSession # 0 => Len(heap[currentSession].pauses) < b.pauses
    /\ WithinBounds(pause(World), b)
    /\ Commit(pause(World))
Finish(b) ==
    /\ WithinBounds(finish(World), b)
    /\ Commit(finish(World))
Skip(b) ==
    /\ WithinBounds(skip(World), b)
    /\ Commit(skip(World))
Reset(b) ==
    /\ WithinBounds(reset(World), b)
    /\ Commit(reset(World))
\* the + button
Plus(b) ==
    /\ WithinBounds(addMinutes(World, StepMinutes), b)
    /\ Commit(addMinutes(World, StepMinutes))
\* the - button, with the view's guard
Minus(b) ==
    /\ st.remainingMs > MinusGuardMs
    /\ WithinBounds(addMinutes(World, -StepMinutes), b)
    /\ Commit(addMinutes(World, -StepMinutes))
\* the task list of the view: a task of a document, or "Unlink Current Task"
SetTask(b) ==
    \E t \in TaskInputs :
        /\ WithinBounds(setTask(World, t[1], t[2]), b)
        /\ Commit(setTask(World, t[1], t[2]))
SettingsChange(b) ==
    \E m \in Modes, v \in SettingsInputs :
        /\ WithinBounds(settingsChange(World, m, v), b)
        /\ Commit(settingsChange(World, m, v))
SettingsResume(b) ==
    \E i \in 1..Len(saves) :
        /\ WithinBounds(settingsResume(World, i), b)
        /\ Commit(settingsResume(World, i))
\* the log folder is typed into the setting tab
LogFolderChange(b) ==
    \E value \in FolderInputs :
        /\ value # settings.logFolderPath
        /\ WithinBounds(logFolderOnChange(World, value), b)
        /\ Commit(logFolderOnChange(World, value))
\* a document leaves the vault / comes back
DocumentDelete(b) ==
    \E path \in MovedDocuments :
        /\ path \in documents
        /\ WithinBounds(vaultDelete(World, path), b)
        /\ Commit(vaultDelete(World, path))
DocumentCreate(b) ==
    \E path \in MovedDocuments :
        /\ path \notin documents
        /\ WithinBounds(vaultCreate(World, path), b)
        /\ Commit(vaultCreate(World, path))
\* the vault reports a modified document
FileModify(b) ==
    \E path \in DocumentInputs :
        /\ WithinBounds(onFileModify(World, path), b)
        /\ Commit(onFileModify(World, path))
CheckResume(b) ==
    \E c \in BOOLEAN :
        /\ checks > 0
        /\ WithinBounds(checkTaskCompletionResume(World, c), b)
        /\ Commit(checkTaskCompletionResume(World, c))
Tick(b) ==
    /\ intervalId # None
    /\ WithinBounds(tick(World), b)
    /\ Commit(tick(World))
\* a file operation awaited by writeLog completes / throws
WriteStep(b) ==
    \E i \in 1..Len(pending), entry \in PathInputs :
        /\ WithinBounds(writeLogStep(World, i, entry), b)
        /\ Commit(writeLogStep(World, i, entry))
WriteFail(b) ==
    \E i \in 1..Len(pending) :
        /\ WithinBounds(writeLogThrow(World, i), b)
        /\ Commit(writeLogThrow(World, i))
\* a view opens / closes
OnChange(b) ==
    \E l \in ListenerIds :
        /\ l \notin listeners
        /\ WithinBounds(onChange(World, l), b)
        /\ Commit(onChange(World, l))
OffChange(b) ==
    \E l \in ListenerIds :
        /\ l \in listeners
        /\ WithinBounds(offChange(World, l), b)
        /\ Commit(offChange(World, l))
\* time passes
Advance(b) ==
    \E t \in ClockInstants(b.instants) :
        /\ t > now
        /\ WithinBounds([World EXCEPT !.now = t], b)
        /\ Commit([World EXCEPT !.now = t])

(* --------------------------- specifications ---------------------------- *)
\* Everything at once.
AllBounds == Bounds(MaxInstants, RacePending)
Next ==
    \/ Start(AllBounds) \/ Pause(AllBounds) \/ Finish(AllBounds)
    \/ Skip(AllBounds) \/ Reset(AllBounds) \/ Plus(AllBounds) \/ Minus(AllBounds)
    \/ SetTask(AllBounds) \/ SettingsChange(AllBounds) \/ SettingsResume(AllBounds)
    \/ FileModify(AllBounds) \/ CheckResume(AllBounds) \/ Tick(AllBounds)
    \/ WriteStep(AllBounds) \/ WriteFail(AllBounds) \/ Advance(AllBounds)
    \/ OnChange(AllBounds) \/ OffChange(AllBounds)
    \/ LogFolderChange(AllBounds) \/ DocumentDelete(AllBounds)
    \/ DocumentCreate(AllBounds)
Spec == Init /\ [][Next]_vars

\* The session lifecycle and its log lines: the folder is set and no file
\* operation fails.
LogBounds == Bounds(MaxInstants, LogPending)
NextLog ==
    \/ Start(LogBounds) \/ Pause(LogBounds) \/ Finish(LogBounds)
    \/ WriteStep(LogBounds) \/ Advance(LogBounds)
SpecLog == InitFolder /\ [][NextLog]_vars

RaceBounds == Bounds(RaceInstants, RacePending)

\* The same with file operations that may fail.
NextFault ==
    \/ Start(RaceBounds) \/ Finish(RaceBounds) \/ WriteStep(RaceBounds)
    \/ WriteFail(RaceBounds) \/ Advance(RaceBounds)
SpecFault == InitFolder /\ [][NextFault]_vars

\* Two log writes in flight.
NextRace ==
    \/ Start(RaceBounds) \/ Finish(RaceBounds) \/ Skip(RaceBounds)
    \/ WriteStep(RaceBounds) \/ Advance(RaceBounds)
SpecRace == InitFolder /\ [][NextRace]_vars

\* The timer alone: no log folder, so every endSession completes within
\* the handler that called it.
TimerBounds == Bounds(MaxInstants, LogPending)
NextTimer ==
    \/ Start(TimerBounds) \/ Pause(TimerBounds) \/ Finish(TimerBounds)
    \/ Skip(TimerBounds) \/ Reset(TimerBounds) \/ Tick(TimerBounds)
    \/ SetTask(TimerBounds) \/ FileModify(TimerBounds) \/ CheckResume(TimerBounds)
    \/ DocumentDelete(TimerBounds) \/ DocumentCreate(TimerBounds)
    \/ Advance(TimerBounds)
SpecTimer == InitNoFolder /\ [][NextTimer]_vars

\* The timer while log writes are delayed or fail.
DelayBounds == [Bounds(RaceInstants, LogPending) EXCEPT !.pauses = DelayPauses]
NextDelay ==
    \/ Start(DelayBounds) \/ Pause(DelayBounds) \/ Finish(DelayBounds)
    \/ Skip(DelayBounds) \/ Tick(DelayBounds) \/ WriteStep(DelayBounds)
    \/ WriteFail(DelayBounds) \/ Advance(DelayBounds)
SpecDelay == InitFolder /\ [][NextDelay]_vars

\* Three sessions in a row, two log writes in flight.
OrderBounds == [Bounds(OrderInstants, RacePending) EXCEPT !.sessions = OrderSessions]
NextOrder ==
    \/ Start(OrderBounds) \/ Finish(OrderBounds) \/ WriteStep(OrderBounds)
    \/ Advance(OrderBounds)
SpecOrder == InitFolder /\ [][NextOrder]_vars

\* The countdown and its adjustments: the +/- buttons and the duration
\* settings, no log folder.
AdjustBounds == Bounds(RaceInstants, LogPending)
NextAdjust ==
    \/ Start(AdjustBounds) \/ Pause(AdjustBounds) \/ Tick(AdjustBounds)
    \/ Plus(AdjustBounds) \/ Minus(AdjustBounds)
    \/ SettingsChange(AdjustBounds) \/ SettingsResume(AdjustBounds)
    \/ Advance(AdjustBounds)
SpecAdjust == InitNoFolder /\ [][NextAdjust]_vars

\* The countdown alone: started, paused, ticked, with no adjustment.
CountdownBounds == Bounds(MaxInstants, LogPending)
NextCountdown ==
    \/ Start(CountdownBounds) \/ Pause(CountdownBounds)
    \/ Tick(CountdownBounds) \/ Advance(CountdownBounds)
SpecCountdown == InitNoFolder /\ [][NextCountdown]_vars

\* The timer alone, under every combination of the auto-start settings.
SpecSwitch == InitAuto /\ [][NextTimer]_vars

\* The listeners of the views: the timer operated with views opening and
\* closing.
ListenBounds == Bounds(ListenInstants, LogPending)
NextListen ==
    \/ OnChange(ListenBounds) \/ OffChange(ListenBounds)
    \/ Start(ListenBounds) \/ Pause(ListenBounds) \/ Finish(ListenBounds)
    \/ Skip(ListenBounds) \/ Reset(ListenBounds) \/ Tick(ListenBounds)
    \/ Advance(ListenBounds)
SpecListen == InitNoFolder /\ [][NextListen]_vars

\* The log folder setting changing between and during sessions.
FolderBounds == Bounds(RaceInstants, LogPending)
NextFolder ==
    \/ Start(FolderBounds) \/ Finish(FolderBounds) \/ Skip(FolderBounds)
    \/ LogFolderChange(FolderBounds) \/ WriteStep(FolderBounds)
    \/ Advance(FolderBounds)
SpecFolder == Init /\ [][NextFolder]_vars

\* Tasks chosen and sessions logged: the check of the task's document and
\* the log write are both in flight after finish().
TaskBounds == Bounds(RaceInstants, LogPending)
NextTask ==
    \/ Start(TaskBounds) \/ SetTask(TaskBounds) \/ Finish(TaskBounds)
    \/ CheckResume(TaskBounds) \/ WriteStep(TaskBounds)
    \/ Advance(TaskBounds)
SpecTask == InitFolder /\ [][NextTask]_vars

\* Documents changing under the timer: no session is ended, so every
\* pending read of the task's document was begun by onFileModify.
ModifyBounds == Bounds(MaxInstants, LogPending)
NextModify ==
    \/ Start(ModifyBounds) \/ Pause(ModifyBounds) \/ Reset(ModifyBounds)
    \/ Tick(ModifyBounds) \/ SetTask(ModifyBounds) \/ FileModify(ModifyBounds)
    \/ CheckResume(ModifyBounds) \/ DocumentDelete(ModifyBounds)
    \/ DocumentCreate(ModifyBounds) \/ Advance(ModifyBounds)
SpecModify == InitNoFolder /\ [][NextModify]_vars

TypeOK ==
    /\ st.mode \in Modes
    /\ st.isRunning \in BOOLEAN
    /\ currentSession \in 0..Len(heap)

(* =============================== claims ================================ *)
OtherMode(mode) == IF mode = "focus" THEN "break" ELSE "focus"
AutoStartFor(mode) ==
    IF mode = "focus" THEN settings.autoStartFocus ELSE settings.autoStartBreak
FullMs(mode) == MinutesOf(settings, mode) * MsPerMinute

\* every chunk written so far, in any daily file
AllChunks == UNION {{files[d][i] : i \in 1..Len(files[d])} : d \in Dates}

\* the paused time of a record, added up from the last interval down
RECURSIVE PausedMs(_, _)
PausedMs(ps, n) ==
    IF n = 0 THEN 0 ELSE PausedMs(ps, n - 1) + ps[n].end - ps[n].start

NetMs(r) == Val(r.endTime) - r.startTime - PausedMs(r.pauses, Len(r.pauses))

\* C1: the Total of every focus line is the floor, in seconds, of end minus
\* start minus the paused time of the record it was derived from, for any
\* number of pauses, a pause closed by the ending included.
C1_TotalIsNetSeconds ==
    \A c \in AllChunks :
        c.line.head = "Focus" =>
            /\ c.line.Total * MsPerSecond <= NetMs(c.src)
            /\ NetMs(c.src) < (c.line.Total + 1) * MsPerSecond

\* a focus line with two pauses, the second closed by the ending, a paused
\* span that is not empty and a net time that is no whole number of seconds
C1_Witness ==
    \E c \in AllChunks :
        /\ c.line.head = "Focus"
        /\ Len(c.src.pauses) = 2
        /\ c.src.pauses[2].end = Val(c.src.endTime)
        /\ PausedMs(c.src.pauses, 2) > 0
        /\ NetMs(c.src) % MsPerSecond # 0
        /\ c.line.Total > 0

\* C2: every session begun and ended gives exactly one line: no record is
\* written twice, and a running timer has a record of its own mode that is
\* not yet finalized, so that ending it writes its line.
C2_OneLinePerSession ==
    /\ \A c1, c2 \in AllChunks : c1.sid = c2.sid => c1 = c2
    /\ \A d \in Dates : \A i, j \in 1..Len(files[d]) :
            files[d][i].sid = files[d][j].sid => i = j
    /\ st.isRunning =>
            /\ currentSession # 0
            /\ heap[currentSession].endTime = None
            /\ heap[currentSession].mode = st.mode

\* C3: finish() on a session in progress, with auto-start set for the next
\* mode, leaves a new record for that mode, started now, with no pauses,
\* and the clock running.
C3_AutoStartBeginsRecord ==
    (currentSession # 0 /\ AutoStartFor(OtherMode(st.mode))) =>
        LET w == RunMicrotasks(finish(World))
        IN  /\ w.st.isRunning
            /\ w.st.mode = OtherMode(st.mode)
            /\ w.currentSession # 0
            /\ w.heap[w.currentSession].mode = w.st.mode
            /\ w.heap[w.currentSession].startTime = now
            /\ w.heap[w.currentSession].pauses = <<>>
            /\ w.heap[w.currentSession].endTime = None

Statuses == {"finished", "cancelled"}
InProgress == currentSession # 0 /\ heap[currentSession].endTime = None

\* C4: startSession while a record is current creates no second record and
\* leaves its startTime, mode and scheduled duration alone; all it does is
\* close the open pause, if there is one, at the present instant.
C4_StartSessionIsResume ==
    currentSession # 0 =>
        \A m \in Modes, t \in TaskInputs, d \in MinutesInputs :
            LET w == startSession(World, m, t[1], d, t[2])
            IN  /\ w.currentSession = currentSession
                /\ Len(w.heap) = Len(heap)
                /\ w.heap[currentSession].startTime = heap[currentSession].startTime
                /\ w.heap[currentSession].mode = heap[currentSession].mode
                /\ w.heap[currentSession].scheduledDurationMinutes =
                        heap[currentSession].scheduledDurationMinutes
                /\ IF currentPauseStart = None
                   THEN w = World
                   ELSE w = [World EXCEPT
                               !.heap[currentSession].pauses =
                                   Append(@, [start |-> Val(currentPauseStart),
                                              end |-> now]),
                               !.currentPauseStart = None]

\* a timer started again after a pause: still the one record, begun
\* earlier, with the pause closed and none open
C4_Witness ==
    /\ st.isRunning
    /\ InProgress
    /\ Len(heap) = 1
    /\ currentPauseStart = None
    /\ Len(heap[currentSession].pauses) = 1
    /\ heap[currentSession].pauses[1].end > heap[currentSession].pauses[1].start
    /\ heap[currentSession].startTime < heap[currentSession].pauses[1].start

\* C5: finish() on a session in progress sets its status to finished and
\* its end to the present instant, whether time remains, is exactly up or
\* is overrun, and leaves the timer in the other mode at its full duration.
C5_FinishEndsAsFinished ==
    InProgress =>
        LET w == finish(World)
        IN  /\ w.heap[currentSession].status = "finished"
            /\ w.heap[currentSession].endTime = Some(now)
            /\ w.heap[currentSession].mode = "focus" =>
                    formatLine(w.heap[currentSession]).Status = "finished"
            /\ w.st.mode = OtherMode(st.mode)
            /\ w.st.remainingMs = FullMs(OtherMode(st.mode))
            /\ w.st.totalMs = FullMs(OtherMode(st.mode))

\* a focus session in overtime, which finish() ends as finished
C5_Witness ==
    /\ InProgress
    /\ st.mode = "focus"
    /\ st.isRunning
    /\ st.remainingMs < 0
    /\ finish(World).heap[currentSession].status = "finished"
    /\ finish(World).st.mode = "break"

\* C6: skip() on a focus session in progress ends it as cancelled, and its
\* line carries Status cancelled; on a rest session in progress it gives a
\* rest line, which has no Status field; either way the timer is left in
\* the other mode, at its full duration and not running, whatever the
\* auto-start settings are.
C6_SkipStatusAndStop ==
    InProgress =>
        LET w == skip(World)
            line == formatLine(w.heap[currentSession])
        IN  /\ w.heap[currentSession].endTime = Some(now)
            /\ st.mode = "focus" =>
                    /\ line.head = "Focus"
                    /\ line.Status = "cancelled"
            /\ st.mode = "break" =>
                    /\ line.head = "Rest"
                    /\ "Status" \notin DOMAIN line
            /\ w.st.mode = OtherMode(st.mode)
            /\ ~w.st.isRunning
            /\ w.targetTime = None
            /\ w.st.remainingMs = FullMs(OtherMode(st.mode))
            /\ w.st.totalMs = FullMs(OtherMode(st.mode))

\* with auto-start set: a skipped focus session written as cancelled, a
\* skipped rest session written without Status, and the timer stopped
C6_Witness ==
    /\ settings.autoStartBreak
    /\ settings.autoStartFocus
    /\ ~st.isRunning
    /\ st.mode = "focus"
    /\ st.remainingMs = st.totalMs
    /\ \E c \in AllChunks : c.line.head = "Focus" /\ c.line.Status = "cancelled"
    /\ \E c \in AllChunks : c.line.head = "Rest" /\ "Status" \notin DOMAIN c.line

\* C7: reset() changes nothing of the recorder and writes nothing: only
\* remainingMs and totalMs go back to the configured duration of the
\* current mode, and the target of the countdown follows.
C7_ResetKeepsSession ==
    LET w == reset(World)
        total == FullMs(st.mode)
    IN  /\ w.currentSession = currentSession
        /\ w.heap = heap
        /\ w.currentPauseStart = currentPauseStart
        /\ w.pending = pending
        /\ w.files = files
        /\ w.micro = 0
        /\ w.st = [st EXCEPT !.remainingMs = total, !.totalMs = total]
        /\ w = [World EXCEPT
                  !.st.remainingMs = total,
                  !.st.totalMs = total,
                  !.targetTime = IF st.isRunning THEN Some(now + total) ELSE None,
                  !.intervalId = IF st.isRunning THEN @ ELSE None]

\* a paused session with time used up and a closed pause behind it, which
\* reset() puts back to the full duration without touching the record
C7_Witness ==
    /\ InProgress
    /\ ~st.isRunning
    /\ currentPauseStart # None
    /\ heap[currentSession].pauses # <<>>
    /\ heap[currentSession].startTime < now
    /\ st.remainingMs < st.totalMs
    /\ reset(World).st.remainingMs = FullMs(st.mode)
    /\ reset(World).heap[currentSession] = heap[currentSession]

\* the Task field the template gives for a task name and path
TaskField(name, path) ==
    IF TruthyOpt(path) /\ OrNoTask(name) # NoTask
    THEN <<"[[", Val(path), "|", name, "]]">>
    ELSE <<OrNoTask(name)>>

\* the line pending write i of world w will hold once it has been derived:
\* writeLog goes on from its first await, through the creation of the log
\* folder where that is missing
DerivedLine(w, i) ==
    LET w1 == writeLogStep(w, i, "file")
    IN  IF w1.pending[i].pc = "createFolder"
        THEN Val(writeLogStep(w1, i, "file").pending[i].line)
        ELSE Val(w1.pending[i].line)

\* C8: setTask while a session is in progress, running or paused, rewrites
\* the task name and path of the record and nothing else of it, and when
\* the session is then ended by finish or skip the Task field of the line
\* that is written is the task of that last setTask, whether or not the
\* check of the task's document begun by the same handler has completed.
C8_LineTaskIsLastSetTask ==
    (InProgress /\ heap[currentSession].mode = "focus"
                /\ Truthy(settings.logFolderPath)) =>
        \A t \in TaskInputs :
            LET w == setTask(World, t[1], t[2])
            IN  /\ w.heap[currentSession] =
                      [heap[currentSession] EXCEPT !.taskName = OrNoTask(t[1]),
                                                   !.taskPath = t[2]]
                /\ w.currentSession = currentSession
                /\ w.currentPauseStart = currentPauseStart
                /\ \A r \in {finish(w), skip(w)} :
                      LET i == Len(r.pending)
                      IN  \A q \in {r} \cup
                                   (IF r.checks > w.checks
                                    THEN {checkTaskCompletionResume(r, TRUE)}
                                    ELSE {}) :
                              DerivedLine(q, i).Task = TaskField(t[1], t[2])

\* C9: pause() on a timer that is not running, start() on one that is, and
\* endSession with no current record change nothing at all and queue no
\* write.
C9_NoOps ==
    /\ ~st.isRunning => pause(World) = World
    /\ st.isRunning => start(World) = World
    /\ currentSession = 0 => \A s \in Statuses : endSession(World, s) = World

\* a timer paused a while ago, which pause() leaves as it is; a record is
\* in progress and its pause stays open from the instant it was opened
C9_Witness ==
    /\ ~st.isRunning
    /\ InProgress
    /\ currentPauseStart # None
    /\ Val(currentPauseStart) < now
    /\ pause(World).currentPauseStart = currentPauseStart

\* C10: once no write is pending any more, whether the writes succeeded or
\* failed, no finalized record is left as the current one, so the next
\* start begins a fresh record.
C10_FailedWriteClearsRecord ==
    (pending = <<>> /\ currentSession # 0) =>
        /\ heap[currentSession].endTime = None
        /\ ~st.isRunning =>
              LET w == start(World)
              IN  w.heap[w.currentSession].endTime = None

TimerPart(w) == [st |-> w.st, targetTime |-> w.targetTime, intervalId |-> w.intervalId]

\* the state had every log write succeeded already: nothing pending, and a
\* finalized record no longer the current one
WritesSettled(w) ==
    LET w1 == [w EXCEPT !.pending = <<>>]
    IN  IF w.currentSession # 0 /\ w.heap[w.currentSession].endTime # None
        THEN endSessionResume(w1)
        ELSE w1

\* C11: with a log write pending or failed, finish() and skip() still
\* switch the mode within the handler, and start, pause, tick, finish and
\* skip leave the timer as they would from the state in which the write
\* has succeeded.
C11_WriteNeverInterruptsTimer ==
    LET s == WritesSettled(World)
    IN  /\ finish(World).st.mode = OtherMode(st.mode)
        /\ finish(World).st.isRunning = AutoStartFor(OtherMode(st.mode))
        /\ skip(World).st.mode = OtherMode(st.mode)
        /\ ~skip(World).st.isRunning
        /\ TimerPart(finish(World)) = TimerPart(finish(s))
        /\ TimerPart(skip(World)) = TimerPart(skip(s))
        /\ TimerPart(start(World)) = TimerPart(start(s))
        /\ TimerPart(pause(World)) = TimerPart(pause(s))
        /\ TimerPart(tick(World)) = TimerPart(tick(s))

\* after a failed write: the finalized focus record is still the current
\* one, nothing is pending, and the rest countdown has run
C11_Witness ==
    /\ pending = <<>>
    /\ currentSession # 0
    /\ heap[currentSession].endTime # None
    /\ heap[currentSession].mode = "focus"
    /\ st.mode = "break"
    /\ st.isRunning
    /\ st.remainingMs < st.totalMs
    /\ AllChunks = {}

\* C12: while no log folder is set, ending a session, by endSession itself
\* or through finish() and skip(), begins no file operation: no write is
\* queued beside those begun while a folder was set, the files and the
\* folder are left alone, the mode is switched as usual, and the record that
\* was in progress is no longer the current one once the handler has
\* returned.
C12_NoFolderNoFileOps ==
    ~Truthy(settings.logFolderPath) =>
        /\ \A s \in Statuses :
              LET e == endSession(World, s)
                  w == RunMicrotasks(e)
              IN  /\ e.pending = pending
                  /\ w.files = files
                  /\ w.folderExists = folderExists
                  /\ w.currentSession = 0
                  /\ w.currentPauseStart = None
        /\ LET f == RunMicrotasks(finish(World))
               k == RunMicrotasks(skip(World))
           IN  /\ f.pending = pending /\ f.files = files
               /\ f.folderExists = folderExists
               /\ InProgress => f.currentSession # currentSession
               /\ f.st.mode = OtherMode(st.mode)
               /\ f.st.isRunning = AutoStartFor(OtherMode(st.mode))
               /\ k.pending = pending /\ k.files = files /\ k.currentSession = 0
               /\ k.folderExists = folderExists
               /\ k.st.mode = OtherMode(st.mode)

\* a focus session in progress at a later instant with the folder setting
\* emptied, after an earlier session was logged while it was set: ending
\* this one writes nothing and clears the record
C12_Witness ==
    /\ ~Truthy(settings.logFolderPath)
    /\ folderExists
    /\ AllChunks # {}
    /\ InProgress
    /\ heap[currentSession].mode = "focus"
    /\ heap[currentSession].startTime < now
    /\ RunMicrotasks(finish(World)).files = files
    /\ RunMicrotasks(finish(World)).currentSession = 0

\* C13: every line is in the daily file of the calendar date of its
\* session's start, also when the session ended on the next date.
C13_FileOfStartDate ==
    \A d \in Dates : \A i \in 1..Len(files[d]) :
        /\ d = FormatDate(files[d][i].src.startTime)
        /\ d = files[d][i].line.Start.date

\* a session begun before midnight and ended after it, in the file of the
\* day it began
C13_Witness ==
    \E i \in 1..Len(files[FormatDate(Epoch)]) :
        LET c == files[FormatDate(Epoch)][i]
        IN  /\ FormatDate(c.src.startTime) = FormatDate(Epoch)
            /\ FormatDate(Val(c.src.endTime)) = FormatDate(Epoch) + 1
            /\ c.line.End.date = FormatDate(Epoch) + 1

\* C14: a step either leaves a daily file as it is, or gives a missing
\* file one line as its whole content, or adds to an existing file a
\* newline and a line after its unchanged content.
C14_AppendOnly ==
    [][\A d \in Dates :
          \/ files'[d] = files[d]
          \/ /\ files[d] = <<>>
             /\ Len(files'[d]) = 1
             /\ files'[d][1].sep = ""
          \/ /\ files[d] # <<>>
             /\ Len(files'[d]) = Len(files[d]) + 1
             /\ SubSeq(files'[d], 1, Len(files[d])) = files[d]
             /\ files'[d][Len(files'[d])].sep = "\n"]_vars

\* a daily file of two lines, the second added after a newline, written
\* by two writes that were in flight together
C14_Witness ==
    \E d \in Dates :
        /\ Len(files[d]) = 2
        /\ files[d][1].sep = ""
        /\ files[d][2].sep = "\n"
        /\ files[d][1].sid = files[d][2].sid

\* the first line of its session in its file
FirstLine(d, k) == \A m \in 1..(k - 1) : files[d][m].sid # files[d][k].sid

\* C15: in every daily file the sessions' lines stand in the order in which
\* the sessions ended: the first line of a session ended earlier comes
\* before the first line of one ended later.  (A record is created only
\* after its predecessor was ended, so the records' order is that of the
\* endings.)
C15_LinesInEndOrder ==
    \A d \in Dates : \A i, j \in 1..Len(files[d]) :
        (i < j /\ FirstLine(d, i) /\ FirstLine(d, j)) =>
            files[d][i].sid < files[d][j].sid

\* the literal No Task, or a link token [[path|name]]
IsTaskRef(f) ==
    \/ f = <<NoTask>>
    \/ /\ Len(f) = 5
       /\ f[1] = "[[" /\ f[3] = "|" /\ f[5] = "]]"
       /\ Truthy(f[2])

\* C16: the Task field of every focus line written is No Task or a link
\* token, and so is that of the line of a focus session in progress ended
\* after setTask with any name and any path or none.
C16_TaskIsNoTaskOrLink ==
    /\ \A c \in AllChunks : c.line.head = "Focus" => IsTaskRef(c.line.Task)
    /\ (InProgress /\ heap[currentSession].mode = "focus") =>
          \A t \in SetTaskArgs :
              LET w == endSession(setTask(World, t[1], t[2]), "finished")
              IN  IsTaskRef(formatLine(w.heap[currentSession]).Task)

\* C17: the Total of every rest line is the floor, in seconds, of end minus
\* start, whatever pauses the rest session had.
C17_RestTotalIsGross ==
    \A c \in AllChunks :
        c.line.head = "Rest" =>
            c.line.Total = (Val(c.src.endTime) - c.src.startTime) \div MsPerSecond

\* C18: a tick changes remainingMs and nothing else, however far below
\* zero the countdown is: mode, isRunning, the record, the pending writes
\* and the files stay as they are; nor do start, pause and reset end the
\* record in progress.
C18_TickOnlyCountsDown ==
    LET w == tick(World)
    IN  /\ w = [World EXCEPT !.st.remainingMs = w.st.remainingMs]
        /\ w.st.mode = st.mode
        /\ w.st.isRunning = st.isRunning
        /\ w.currentSession = currentSession
        /\ w.heap = heap
        /\ w.pending = pending
        /\ w.files = files
        /\ w.micro = 0
        /\ (st.isRunning /\ targetTime # None) =>
              w.st.remainingMs = Val(targetTime) - now
        /\ InProgress =>
              \A r \in {start(World), pause(World), reset(World), w} :
                  /\ r.heap[currentSession].endTime = None
                  /\ r.currentSession = currentSession
                  /\ r.pending = pending

\* a focus countdown ticked more than two full durations past zero, still
\* running, its record still in progress
C18_Witness ==
    /\ st.mode = "focus"
    /\ st.isRunning
    /\ st.remainingMs < -2 * st.totalMs
    /\ st.remainingMs = Val(targetTime) - now
    /\ InProgress
    /\ heap[currentSession].mode = "focus"

\* C19: addMinutes(delta), for any integer delta and from any reachable
\* state, leaves totalMs at 60000 or more and remainingMs at no more than
\* the new totalMs: the total is the old one plus delta minutes, raised to
\* one minute, the remaining the old one plus delta minutes, lowered to
\* the new total.
C19_AddMinutesClamps ==
    \A delta \in DeltaInputs :
        LET w == addMinutes(World, delta)
            sum == st.totalMs + delta * 60000
            moved == st.remainingMs + delta * 60000
        IN  /\ w.st.totalMs >= 60000
            /\ w.st.remainingMs <= w.st.totalMs
            /\ w.st.totalMs = IF sum < 60000 THEN 60000 ELSE sum
            /\ w.st.remainingMs = IF moved > w.st.totalMs THEN w.st.totalMs ELSE moved

\* a running countdown whose total was shortened by a settings change, so
\* that remaining exceeds it: addMinutes(1) clamps the remaining to the new
\* total, addMinutes(-30) the total to one minute
C19_Witness ==
    /\ st.isRunning
    /\ st.remainingMs > st.totalMs
    /\ addMinutes(World, 1).st.remainingMs = st.totalMs + 60000
    /\ addMinutes(World, -30).st.totalMs = 60000

\* C20: with no adjustment, starting or restarting the timer fixes the
\* target at the present instant plus the remaining time; while the timer
\* stays running the target does not move, and a tick sets remainingMs to
\* target minus now, that is the remaining time at the (re)start minus the
\* time elapsed since, whatever ticks came before.
C20_RemainingFollowsTarget ==
    [][/\ (~st.isRunning /\ st'.isRunning) =>
              /\ targetTime' = Some(now' + st.remainingMs)
              /\ st'.remainingMs = st.remainingMs
       /\ (st.isRunning /\ st'.isRunning) =>
              /\ targetTime' = targetTime
              /\ st'.remainingMs \in {st.remainingMs, Val(targetTime) - now'}
       /\ st.isRunning =>
              /\ targetTime # None
              /\ tick(World).st.remainingMs = Val(targetTime) - now]_vars

\* a countdown restarted after a pause and ticked later: remaining is what
\* it was at the restart minus the time since, with time having passed
\* unticked in between
C20_Witness ==
    /\ st.isRunning
    /\ InProgress
    /\ Len(heap[currentSession].pauses) = 1
    /\ heap[currentSession].pauses[1].start > heap[currentSession].startTime
    /\ heap[currentSession].pauses[1].end < now
    /\ st.remainingMs = Val(targetTime) - now
    /\ st.remainingMs < st.totalMs - (now - heap[currentSession].pauses[1].end)

\* C21: pause() freezes the countdown. It leaves remainingMs as it is, stops
\* the timer and clears the wall-clock target and the loop; while the timer
\* is not running neither the passage of time nor a tick changes
\* remainingMs; a start() at any later instant sets the target to that
\* instant plus the frozen remainingMs and leaves remainingMs as it is.
C21_PauseFreezes ==
    [][/\ st.isRunning =>
              LET p == pause(World)
              IN  /\ ~p.st.isRunning
                  /\ p.st.remainingMs = st.remainingMs
                  /\ p.targetTime = None
                  /\ p.intervalId = None
                  /\ \A t \in ClockInstants(MaxInstants) :
                        t >= now =>
                            LET q == [p EXCEPT !.now = t]
                                r == start(q)
                            IN  /\ tick(q) = q
                                /\ r.st.isRunning
                                /\ r.st.remainingMs = st.remainingMs
                                /\ r.targetTime = Some(t + st.remainingMs)
                                /\ tick(r).st.remainingMs = st.remainingMs
       /\ ~st.isRunning =>
              /\ targetTime = None
              /\ intervalId = None
              /\ tick(World) = World
       /\ (~st.isRunning /\ now' # now) => st' = st
       /\ (~st.isRunning /\ st'.isRunning /\ st'.mode = st.mode) =>
              /\ st'.remainingMs = st.remainingMs
              /\ targetTime' = Some(now' + st.remainingMs)]_vars

\* a countdown paused part-way, with time having passed since the pause:
\* remaining is what the last tick before the pause left, and a start now
\* would aim at now plus that
C21_Witness ==
    /\ ~st.isRunning
    /\ InProgress
    /\ currentPauseStart # None
    /\ Val(currentPauseStart) < now
    /\ 0 < st.remainingMs
    /\ st.remainingMs < st.totalMs
    /\ start(World).targetTime = Some(now + st.remainingMs)

\* C22: a focus session in progress is ended as finished only by finish()
\* with the countdown completed (remainingMs at or below zero); finish()
\* with time remaining, skip() and reset() end it as cancelled.
C22_FinishedOnlyWhenCompleted ==
    (InProgress /\ heap[currentSession].mode = "focus" /\ st.mode = "focus") =>
        LET f == finish(World).heap[currentSession]
            k == skip(World).heap[currentSession]
            r == reset(World).heap[currentSession]
        IN  /\ f.endTime = Some(now)
            /\ f.status = IF st.remainingMs <= 0 THEN "finished" ELSE "cancelled"
            /\ k.endTime = Some(now)
            /\ k.status = "cancelled"
            /\ r.endTime = Some(now)
            /\ r.status = "cancelled"

\* C23: a line is written only for a concluded session. Every call
\* suspended in writeLog is for a record that has its end set; start,
\* pause, resume, setTask, addMinutes, reset, updateDuration and a tick
\* neither write a file nor begin a write; a file changes only when a
\* suspended create or append completes, and the line added was derived
\* from a record whose end was set, at an instant not after the write, and
\* carries that end as its End value.
C23_LineOnlyAfterConclusion ==
    [][/\ \A i \in 1..Len(pending) : heap[pending[i].session].endTime # None
       /\ \A r \in {start(World), pause(World), reset(World), tick(World)}
                    \cup {setTask(World, t[1], t[2]) : t \in SetTaskArgs}
                    \cup {addMinutes(World, delta) : delta \in DeltaInputs}
                    \cup {updateDuration(World, m, v) : m \in Modes, v \in MinutesInputs} :
              /\ r.files = files
              /\ r.pending = pending
              /\ r.micro = 0
       /\ \A d \in Dates :
              files'[d] # files[d] =>
                  LET c == files'[d][Len(files'[d])]
                  IN  /\ Len(files'[d]) = Len(files[d]) + 1
                      /\ \E i \in 1..Len(pending) :
                            /\ pending[i].pc \in {"append", "create"}
                            /\ c.line = Val(pending[i].line)
                            /\ c.sid = pending[i].session
                      /\ c.src.endTime # None
                      /\ Val(c.src.endTime) <= now
                      /\ c.line.End = FormatDateTime(Val(c.src.endTime))]_vars

\* a focus session started, paused and resumed with the file still empty,
\* and its line in the file once it was finished
C23_Witness ==
    /\ \E c \in AllChunks :
          /\ c.line.head = "Focus"
          /\ c.src.pauses # <<>>
          /\ c.src.startTime < c.src.pauses[1].start
          /\ c.src.pauses[1].end < Val(c.src.endTime)
          /\ c.line.End = FormatDateTime(Val(c.src.endTime))
    /\ pending = <<>>
    /\ currentSession = 0

\* the timer after each operation that may change its state
Operated ==
    {start(World), pause(World), finish(World), skip(World), reset(World),
     tick(World)}
        \cup {addMinutes(World, delta) : delta \in DeltaInputs}
        \cup {updateDuration(World, m, v) : m \in Modes, v \in MinutesInputs}
        \cup {setTask(World, t[1], t[2]) : t \in SetTaskArgs}

Called(l, w, s) ==
    w.received[l] = [n |-> received[l].n + 1, last |-> Some([obj |-> "copy", val |-> s])]

\* what the calls defined above do to the listeners, from the present state
ToldOfChanges ==
    /\ \A l \in ListenerIds :
          LET r == onChange(World, l)
          IN  /\ r.listeners = listeners \cup {l}
              /\ Called(l, r, st)
              /\ \A k \in ListenerIds \ {l} : r.received[k] = received[k]
              /\ offChange(r, l).listeners = listeners \ {l}
              /\ offChange(r, l).received = r.received
    /\ \A r \in Operated :
          /\ r.listeners = listeners
          /\ \A l \in ListenerIds :
                /\ (l \in listeners /\ r.st # st) => Called(l, r, r.st)
                /\ l \in listeners =>
                      \/ Called(l, r, r.st)
                      \/ r.received[l] = received[l]
                /\ l \notin listeners => r.received[l] = received[l]
    /\ \A l \in listeners :
          /\ received[l].last # None
          /\ Val(received[l].last).val = st

\* C24: onChange(l) registers l and calls it once with a copy of the
\* current state; start, pause, finish, skip, reset, addMinutes,
\* updateDuration, setTask and a tick, whenever they change the state, call
\* every registered listener once with a copy of the state they leave, so
\* that a registered listener's last snapshot is the current state; a
\* listener that is not registered is not called, from offChange on; a
\* snapshot once delivered stays as it was until the next call.
C24_ListenersFollowState ==
    /\ []ToldOfChanges
    /\ [][\A l \in ListenerIds :
             /\ (l \notin listeners /\ l \notin listeners') =>
                   received'[l] = received[l]
             /\ received'[l].n = received[l].n => received'[l] = received[l]]_vars

\* one view open and told three times, the last time of the present
\* state; the other closed, left with the snapshot of an earlier state
C24_Witness ==
    /\ listeners = {1}
    /\ received[1].n = 3
    /\ Val(received[1].last).val = st
    /\ received[2].n = 2
    /\ Val(received[2].last).val # st
    /\ Val(received[2].last).val.isRunning
    /\ ~st.isRunning

\* C25: whenever the timer is not running, remainingMs is at most totalMs:
\* the timer is stopped (remainingMs = totalMs) or paused
\* (remainingMs < totalMs).
C25_NotRunningWithinTotal ==
    ~st.isRunning => st.remainingMs <= st.totalMs

\* C26: overtime occurs only while running: whenever remainingMs is below
\* zero the timer is running.
C26_OvertimeOnlyRunning ==
    st.remainingMs < 0 => st.isRunning

\* C27: totalMs is at least 60000 in every reachable state, and stays so
\* after every operation: the configured durations stay at one minute or
\* more, since the settings panel takes only inputs above zero, and
\* addMinutes raises the total to one minute.
C27_TotalAtLeastOneMinute ==
    /\ st.totalMs >= 60000
    /\ settings.focusMinutes >= 1
    /\ settings.breakMinutes >= 1
    /\ \A i \in 1..Len(saves) : saves[i].val >= 1
    /\ \A r \in Operated : r.st.totalMs >= 60000
    /\ \A m \in Modes, v \in SettingsInputs :
          /\ settingsChange(World, m, v).settings.focusMinutes >= 1
          /\ settingsChange(World, m, v).settings.breakMinutes >= 1

\* a running one-minute countdown with a changed duration being saved:
\* addMinutes(-30) leaves the total at one minute, and an input of zero is
\* not taken
C27_Witness ==
    /\ st.isRunning
    /\ st.totalMs = 60000
    /\ saves # <<>>
    /\ settings.focusMinutes = 2
    /\ addMinutes(World, -30).st.totalMs = 60000
    /\ settingsChange(World, "focus", 0) = World

\* the instant at which remainingMs was the time left to the target
ReadAt == Val(targetTime) - st.remainingMs

\* C28 as stated: after addMinutes on a running timer a tick at any later
\* instant computes the adjusted remainingMs minus the time elapsed since
\* the adjustment; on a timer that is not running the target stays unset.
C28_TickAfterAdjustment ==
    \A delta \in DeltaInputs :
        LET w == addMinutes(World, delta)
        IN  IF st.isRunning
            THEN \A t \in ClockInstants(MaxInstants) :
                    t >= now =>
                        tick([w EXCEPT !.now = t]).st.remainingMs
                            = w.st.remainingMs - (t - now)
            ELSE targetTime = None /\ w.targetTime = None

\* C28, amended: addMinutes on a running timer moves the target by exactly
\* the change applied to remainingMs, clamping included, so that a tick at
\* any later instant computes the adjusted remainingMs minus the time
\* elapsed since remainingMs was last computed (by a tick, or at the start
\* or reset), an instant not after the adjustment; on a timer that is not
\* running the target stays unset.
C28_TargetMovesWithRemaining ==
    \A delta \in DeltaInputs :
        LET w == addMinutes(World, delta)
        IN  IF st.isRunning
            THEN /\ targetTime # None
                 /\ ReadAt <= now
                 /\ Val(w.targetTime) - Val(targetTime)
                        = w.st.remainingMs - st.remainingMs
                 /\ \A t \in ClockInstants(MaxInstants) :
                        t >= now =>
                            tick([w EXCEPT !.now = t]).st.remainingMs
                                = w.st.remainingMs - (t - ReadAt)
            ELSE targetTime = None /\ w.targetTime = None

\* a running countdown last ticked a while ago, with more remaining than
\* its total: addMinutes(1) is clamped, and the target moves by less than
\* a minute
C28_Witness ==
    /\ st.isRunning
    /\ ReadAt < now
    /\ st.remainingMs > st.totalMs
    /\ addMinutes(World, 1).st.remainingMs - st.remainingMs < 60000
    /\ Val(addMinutes(World, 1).targetTime) - Val(targetTime)
          = addMinutes(World, 1).st.remainingMs - st.remainingMs

\* C29: finish() and skip(), from any state and under any configured
\* durations, leave the timer in the other mode with remainingMs and
\* totalMs both at the configured minutes of that mode times 60000; after
\* skip() the timer is not running, after finish() it is running exactly
\* if auto-start is set for the mode entered.
C29_SwitchToOtherMode ==
    \A u \in {World} \cup {settingsChange(World, m, v) : m \in Modes, v \in MinutesInputs} :
        LET f == finish(u)
            k == skip(u)
            next == OtherMode(st.mode)
            total == MinutesOf(u.settings, next) * 60000
            auto == IF next = "focus" THEN u.settings.autoStartFocus
                                      ELSE u.settings.autoStartBreak
        IN  /\ f.st.mode = next
            /\ f.st.remainingMs = total
            /\ f.st.totalMs = total
            /\ f.st.isRunning = auto
            /\ f.targetTime = IF auto THEN Some(now + total) ELSE None
            /\ k.st.mode = next
            /\ k.st.remainingMs = total
            /\ k.st.totalMs = total
            /\ ~k.st.isRunning
            /\ k.targetTime = None

\* a break auto-started by finish(), with auto-start set for breaks and
\* not for focus: the next finish() leaves the focus timer stopped
C29_Witness ==
    /\ settings.autoStartBreak
    /\ ~settings.autoStartFocus
    /\ st.mode = "break"
    /\ st.isRunning
    /\ st.remainingMs = st.totalMs
    /\ st.totalMs = 2 * 60000
    /\ targetTime = Some(now + st.totalMs)
    /\ finish(World).st.mode = "focus"
    /\ ~finish(World).st.isRunning
    /\ finish(World).st.remainingMs = 60000

\* C30: updateDuration(mode, minutes) changes nothing when mode is not the
\* active mode; when it is, it sets totalMs to minutes times 60000, sets
\* remainingMs to the same value only if the timer is not running and
\* remainingMs equals the old totalMs, and changes nothing else: the
\* record in progress, the target and the loop stay as they are.
C30_UpdateDurationFrame ==
    \A m \in Modes, v \in MinutesInputs :
        LET w == updateDuration(World, m, v)
            fresh == ~st.isRunning /\ st.remainingMs = st.totalMs
        IN  /\ m # st.mode => w = World
            /\ m = st.mode =>
                  /\ w.st.totalMs = v * 60000
                  /\ w.st.remainingMs = IF fresh THEN v * 60000 ELSE st.remainingMs
                  /\ w = [World EXCEPT !.st.totalMs = w.st.totalMs,
                                       !.st.remainingMs = w.st.remainingMs]
            /\ w.heap = heap
            /\ w.currentSession = currentSession
            /\ w.currentPauseStart = currentPauseStart

\* a paused session with time used up: a new duration for the active mode
\* changes the total and leaves the remaining time and the record, one for
\* the other mode changes nothing
C30_Witness ==
    /\ InProgress
    /\ ~st.isRunning
    /\ 0 < st.remainingMs
    /\ st.remainingMs < st.totalMs
    /\ st.totalMs # 2 * 60000
    /\ updateDuration(World, st.mode, 2).st.totalMs = 2 * 60000
    /\ updateDuration(World, st.mode, 2).st.remainingMs = st.remainingMs
    /\ updateDuration(World, OtherMode(st.mode), 2) = World

\* the timer and the record after each operation that does not end a session
Continued ==
    {start(World), pause(World), reset(World), tick(World)}
        \cup {addMinutes(World, delta) : delta \in DeltaInputs}
        \cup {updateDuration(World, m, v) : m \in Modes, v \in MinutesInputs}
        \cup {settingsChange(World, m, v) : m \in Modes, v \in SettingsInputs}
        \cup {setTask(World, t[1], t[2]) : t \in SetTaskArgs}

ScheduledKept ==
    /\ InProgress =>
          LET minutes == heap[currentSession].scheduledDurationMinutes
          IN  /\ \A r \in Continued :
                    r.heap[currentSession].scheduledDurationMinutes = minutes
              /\ \A r \in {finish(World), skip(World)} :
                    formatLine(r.heap[currentSession]).Scheduled = minutes * 60
    /\ currentSession = 0 =>
          LET r == start(World)
          IN  /\ r.currentSession # 0
              /\ r.heap[r.currentSession].mode = st.mode
              /\ r.heap[r.currentSession].scheduledDurationMinutes
                     = MinutesOf(settings, st.mode)

\* C31: a record is created with the configured minutes of its mode as its
\* scheduled duration, whatever total the timer shows; addMinutes,
\* updateDuration, a changed setting, reset, setTask, pause, resume and a
\* tick leave it as it is, from step to step for as long as the record is
\* current, and the line derived at the end carries it times 60 as
\* Scheduled.
C31_ScheduledFixedAtStart ==
    /\ []ScheduledKept
    /\ [][/\ (currentSession # 0 /\ currentSession' = currentSession) =>
                heap'[currentSession].scheduledDurationMinutes
                    = heap[currentSession].scheduledDurationMinutes
          /\ (currentSession = 0 /\ currentSession' # 0) =>
                heap'[currentSession'].scheduledDurationMinutes
                    = MinutesOf(settings, st.mode)]_vars

\* a paused focus session scheduled for one minute, while the timer shows
\* another total and the configured duration has become two minutes
C31_Witness ==
    /\ InProgress
    /\ ~st.isRunning
    /\ currentPauseStart # None
    /\ heap[currentSession].scheduledDurationMinutes = 1
    /\ settings.focusMinutes = 2
    /\ st.mode = "focus"
    /\ st.totalMs > 2 * 60000
    /\ formatLine(finish(World).heap[currentSession]).Scheduled = 60

\* C32: a session ended while a pause is open has that pause closed first,
\* at the instant of the ending: the record gets the interval from the
\* pause's start to now as its last one, the line derived from it shows
\* that interval ending at End and a Total without the paused span; a line
\* written shows a pause that ends at End as its last one; and no pause is
\* open while no record is current.
C32_EndClosesOpenPause ==
    /\ (InProgress /\ currentPauseStart # None) =>
          \A status \in Statuses :
              LET r == endSession(World, status)
                  rec == r.heap[currentSession]
                  n == Len(rec.pauses)
              IN  /\ rec.pauses = Append(heap[currentSession].pauses,
                                         [start |-> Val(currentPauseStart), end |-> now])
                  /\ rec.endTime = Some(now)
                  /\ r.currentPauseStart = None
                  /\ formatLine(rec).Total * MsPerSecond <= NetMs(rec)
                  /\ NetMs(rec) < (formatLine(rec).Total + 1) * MsPerSecond
                  /\ rec.mode = "focus" =>
                        formatLine(rec).Pauses[n][3] = formatLine(rec).End
    /\ \A c \in AllChunks :
          LET n == Len(c.src.pauses)
          IN  (\E i \in 1..n : c.src.pauses[i].end = Val(c.src.endTime)) =>
                 /\ c.src.pauses[n].end = Val(c.src.endTime)
                 /\ c.line.head = "Focus" => c.line.Pauses[n][3] = c.line.End
    /\ currentSession = 0 => currentPauseStart = None

\* C33: a read of the task's document begun by onFileModify never unlinks
\* the task while the timer is running: whenever such a read is pending and
\* isRunning is true, its completion leaves the task as it is, whatever the
\* document says, and no step makes the task No Task with the timer running
\* before and after it.
C33_NoUnlinkWhileRunning ==
    /\ [](\A completed \in BOOLEAN :
            (checks > 0 /\ st.isRunning) =>
                LET r == checkTaskCompletionResume(World, completed)
                IN  /\ r.currentTaskName = currentTaskName
                    /\ r.currentTaskPath = currentTaskPath)
    /\ [][(checks' < checks /\ st.isRunning /\ st'.isRunning) =>
              currentTaskName' = currentTaskName]_vars

\* C34: whenever the timer is running the recorder holds a record in
\* progress: one is current, and it has not been ended.
C34_RunningHasRecord ==
    st.isRunning => (currentSession # 0 /\ InProgress)

\* C35: while the timer runs with a record in progress, the record's mode
\* is the timer's mode; and the End of a record is set only by a finish or
\* skip of the timer in the record's mode, so that the span from Start to
\* End of every line was timed in the mode the line is labelled with.
C35_RecordModeIsTimerMode ==
    /\ (st.isRunning /\ InProgress) => heap[currentSession].mode = st.mode
    /\ currentSession # 0 =>
          \A r \in {finish(World), skip(World)} :
              r.heap[currentSession].endTime # heap[currentSession].endTime =>
                  heap[currentSession].mode = st.mode

\* what may be called on the timer while the write begun in world w is
\* pending: setTask (by the user, or by the check of the task's document
\* that finish and skip begin), pause and start
CalledWhilePending(w) ==
    {setTask(w, t[1], t[2]) : t \in SetTaskArgs}
        \cup (IF w.checks > 0 THEN {checkTaskCompletionResume(w, TRUE)} ELSE {})
        \cup {pause(w), start(w), start(pause(w)), pause(start(w)),
              start(pause(start(w)))}

\* C36: the line of a session ended by finish or skip holds the values the
\* record had when endSession was called: a setTask, pause or start that
\* follows while the write is pending leaves the line to be written as it
\* was.
C36_LineAsAtEndSession ==
    (InProgress /\ Truthy(settings.logFolderPath)) =>
        \A r \in {finish(World), skip(World)} :
            LET i == Len(r.pending)
            IN  /\ i = Len(pending) + 1
                /\ r.pending[i].session = currentSession
                /\ \A q \in CalledWhilePending(r) :
                      DerivedLine(q, i) = DerivedLine(r, i)

\* C37: in every line written the pause intervals are well formed: each
\* starts no later than it ends, each ends no later than the next starts,
\* none starts before Start or ends after End, and Total is not negative.
C37_PausesWithinSession ==
    \A c \in AllChunks :
        LET ps == c.src.pauses
        IN  /\ \A i \in 1..Len(ps) :
                  /\ ps[i].start <= ps[i].end
                  /\ c.src.startTime <= ps[i].start
                  /\ ps[i].end <= Val(c.src.endTime)
            /\ \A i \in 1..(Len(ps) - 1) : ps[i].end <= ps[i + 1].start
            /\ c.src.startTime <= Val(c.src.endTime)
            /\ c.line.Total >= 0

\* the time a running timer has counted off, and the time the recorder
\* holds for the record in progress: since its start, less its closed
\* pauses
TimerElapsed == st.totalMs - (Val(targetTime) - now)
RecorderElapsed ==
    (now - heap[currentSession].startTime)
        - PausedMs(heap[currentSession].pauses, Len(heap[currentSession].pauses))

\* C38: with no reset, addMinutes or updateDuration, the timer and the
\* recorder agree on the elapsed time of the session at every instant
\* while the timer is running, after any number of pauses and resumes.
C38_TimerAndRecorderAgree ==
    (st.isRunning /\ targetTime # None /\ InProgress) =>
        TimerElapsed = RecorderElapsed

\* the target is set exactly when the timer runs, and the interval is
\* scheduled only when it runs
TargetIffRunning(w) ==
    /\ (w.targetTime # None) <=> w.st.isRunning
    /\ w.intervalId # None => w.st.isRunning

\* the timer after each of its operations, from the present state
TimerOperated ==
    Operated \cup {cancel(World)}
        \cup {switchMode(World, m, a) : m \in Modes, a \in BOOLEAN}
        \cup {settingsChange(World, m, v) : m \in Modes, v \in SettingsInputs}
        \cup {onFileModify(World, path) : path \in DocumentInputs}
        \cup {checkTaskCompletionResume(World, c) : c \in BOOLEAN}

\* C39: after every operation of the timer the wall-clock target is set if
\* and only if isRunning is true, and the tick callback is scheduled only
\* when isRunning is true: in every state reached, and after each operation
\* called from it.
C39_TargetIffRunning ==
    /\ TargetIffRunning(World)
    /\ \A r \in TimerOperated : TargetIffRunning(r)

\* a countdown paused part-way: no target and no interval, and a start()
\* sets both; the auto-started timer after a finish() has both
C39_Witness ==
    /\ ~st.isRunning
    /\ st.remainingMs < st.totalMs
    /\ targetTime = None
    /\ intervalId = None
    /\ start(World).targetTime = Some(now + st.remainingMs)
    /\ start(World).intervalId # None
    /\ AutoStartFor(OtherMode(st.mode))
    /\ finish(World).st.isRunning
    /\ finish(World).targetTime # None

====
